---- MODULE Spec2Model ----
(***************************************************************************)
(* The live voice conversation of the Vision Aid reader (App component):   *)
(* startConversation / stopConversation, the four session callbacks, the   *)
(* playback cursor and the transcript accumulators.                        *)
(*                                                                         *)
(* Every call of startConversation gets a number k (1, 2, ...).  The       *)
(* objects that call creates (its microphone stream, its two audio         *)
(* contexts, its session promise and socket, the capture node its onopen   *)
(* creates) carry the same number; the React refs hold the number of the   *)
(* object they point to, 0 for null.                                       *)
(*                                                                         *)
(* One action is one run of a handler up to its next await.  The awaits of *)
(* the source (getUserMedia, the session promise, decodeAudioData) are     *)
(* suspension points at which any other handler may run.  decodeAudioData  *)
(* has no await of its own, so its promises settle in call order and the   *)
(* continuations of onmessage resume first in, first out.                  *)
(***************************************************************************)
EXTENDS Integers, Sequences, FiniteSets, TLC

\* ------------------------------------------------------------- bounds
MaxConv == 2        \* calls of startConversation in one run of Spec
PbConv == 1         \* calls of startConversation in one run of SpecPlayback
PbMsgs == 2         \* inbound messages in one run of SpecPlayback
MaxClock == 1       \* ticks of the output clocks in one run of SpecPlayback
TrConv == 1         \* calls of startConversation in one run of SpecTranscript
TrMsgs == 2         \* inbound messages in one run of SpecTranscript

Conv == 1..MaxConv
Null == 0

\* ------------------------------------------------------------- state
VARIABLES
    mounted,                    \* the App component is mounted
    isConversationModalOpen,
    isConversationActive,
    isConnecting,
    conversationTranscript,
    sessionPromiseRef,
    inputAudioContextRef,
    outputAudioContextRef,
    scriptProcessorRef,
    mediaStreamRef,
    audioSourcesRef,            \* set of playback sources
    nextStartTimeRef,
    currentInputTranscriptionRef,
    currentOutputTranscriptionRef,
    \* objects and suspended calls
    nStarted,                   \* calls of startConversation so far
    startPc,                    \* per call: "none" | "awaitMic" | "done" | "failed"
    track,                      \* microphone tracks: "none" | "live" | "stopped"
    inCtx, outCtx,              \* audio contexts: "none" | "running" | "closed"
    promise,                    \* session promise: "none" | "pending" | "resolved" | "rejected"
    ws,                         \* socket: "none" | "connecting" | "open" | "failed" | "closing" | "closed"
    procNode,                   \* capture node: "none" | "attached" | "detached"
    stopAwait,                  \* per handle: calls of stopConversation suspended at line 315
    decodeQ,                    \* onmessage calls suspended at line 389, oldest first
    clock,                      \* currentTime of each output context
    sources,                    \* every source created, in order: [arr, ctx, start, dur, st]
    \* history
    nMsgs,                      \* messages delivered so far
    lastMsg,                    \* the message delivered last
    releaseRuns,                \* per handle: runs of lines 314-342
    relLog,                     \* the steps of the latest run of lines 314-342, in order
    closeErr,                   \* close() was called on a closed AudioContext
    stopDuringMic,              \* calls of start suspended at line 349 that a stop() call passed
    \* capture
    nWindows,                   \* windows the capture nodes have produced so far
    thenQ,                      \* per session promise: the windows whose .then callback waits
    sent,                       \* the calls of sendRealtimeInput, in order: [session, window]
    \* codec
    codecPc,                    \* "idle" | "samples" | "bytes" | "encoded" | "decoded" | "done"
    floatIn,                    \* the Float32Array given to createAudioBlob
    bytesIn,                    \* the Uint8Array given to encode
    base64,                     \* the string encode returned
    bytesOut,                   \* the Uint8Array decode returned
    floatOut                    \* the channel data decodeAudioData wrote

uiVars == <<mounted, isConversationModalOpen>>
flagVars == <<isConversationActive, isConnecting>>
refVars == <<inputAudioContextRef, outputAudioContextRef, scriptProcessorRef, mediaStreamRef>>
textVars == <<conversationTranscript, currentInputTranscriptionRef, currentOutputTranscriptionRef>>
playVars == <<audioSourcesRef, nextStartTimeRef, decodeQ, sources>>
objVars == <<track, inCtx, outCtx, promise, ws, procNode>>
stopVars == <<sessionPromiseRef, stopAwait, stopDuringMic>>
relVars == <<releaseRuns, relLog, closeErr>>
msgVars == <<nMsgs, lastMsg>>
captureVars == <<nWindows, thenQ, sent>>
codecVars == <<codecPc, floatIn, bytesIn, base64, bytesOut, floatOut>>
vars == <<uiVars, flagVars, refVars, textVars, playVars, objVars, stopVars, relVars,
          msgVars, nStarted, startPc, clock, captureVars, codecVars>>

NoMsg == [inT |-> <<>>, outT |-> <<>>, turnComplete |-> FALSE, audio |-> 0]

InitConversation ==
    /\ mounted = TRUE
    /\ isConversationModalOpen = FALSE
    /\ isConversationActive = FALSE
    /\ isConnecting = FALSE
    /\ conversationTranscript = <<>>
    /\ sessionPromiseRef = Null
    /\ inputAudioContextRef = Null
    /\ outputAudioContextRef = Null
    /\ scriptProcessorRef = Null
    /\ mediaStreamRef = Null
    /\ audioSourcesRef = {}
    /\ nextStartTimeRef = 0
    /\ currentInputTranscriptionRef = <<>>
    /\ currentOutputTranscriptionRef = <<>>
    /\ nStarted = 0
    /\ startPc = [k \in Conv |-> "none"]
    /\ track = [k \in Conv |-> "none"]
    /\ inCtx = [k \in Conv |-> "none"]
    /\ outCtx = [k \in Conv |-> "none"]
    /\ promise = [k \in Conv |-> "none"]
    /\ ws = [k \in Conv |-> "none"]
    /\ procNode = [k \in Conv |-> "none"]
    /\ stopAwait = [k \in Conv |-> 0]
    /\ decodeQ = <<>>
    /\ clock = [k \in Conv |-> 0]
    /\ sources = <<>>
    /\ nMsgs = 0
    /\ lastMsg = NoMsg
    /\ releaseRuns = [k \in Conv |-> 0]
    /\ relLog = <<>>
    /\ closeErr = FALSE
    /\ stopDuringMic = {}
    /\ nWindows = 0
    /\ thenQ = [k \in Conv |-> <<>>]
    /\ sent = <<>>

\* No codec call is in progress.
InitCodecIdle ==
    /\ codecPc = "idle"
    /\ floatIn = <<>>
    /\ bytesIn = <<>>
    /\ base64 = <<>>
    /\ bytesOut = <<>>
    /\ floatOut = <<>>

Init == InitConversation /\ InitCodecIdle

\* The state the modal's button shows.
LifecycleState ==
    IF isConnecting THEN "Connecting"
    ELSE IF isConversationActive THEN "Active"
    ELSE "Idle"

\* ------------------------------------------------------------- stopConversation
\* The handle left in sessionPromiseRef once stop() has taken h.
KeepHandle(h) == h
ClearedHandle(h) == Null

\* stopConversation() up to its await.
StopConversation ==
    /\ stopDuringMic' = stopDuringMic \cup {k \in Conv : startPc[k] = "awaitMic"}
    /\ IF sessionPromiseRef = Null
       THEN UNCHANGED <<sessionPromiseRef, stopAwait>>
       ELSE LET h == sessionPromiseRef IN
            /\ sessionPromiseRef' = ClearedHandle(h)
            /\ stopAwait' = [stopAwait EXCEPT ![h] = @ + 1]

\* A context is closed only when the ref holds one whose state is not 'closed'.
CloseUnchecked(ref, st) == ref # Null
CloseAttempt(ref, st) == ref # Null /\ st[ref] # "closed"

\* The release steps of stopConversation in the order the source performs them.
ReorderedTeardown ==
    <<"closeSession", "detachCapture", "stopTracks", "closeContexts", "stopSources", "setIdle">>
TeardownOrder ==
    <<"closeSession", "stopTracks", "detachCapture", "closeContexts", "stopSources", "setIdle">>

StepRuns(step, h) ==
    CASE step = "closeSession" -> promise[h] = "resolved"
      [] step = "stopTracks" -> mediaStreamRef # Null
      [] step = "detachCapture" -> scriptProcessorRef # Null
      [] step = "closeContexts" -> \/ CloseAttempt(inputAudioContextRef, inCtx)
                                  \/ CloseAttempt(outputAudioContextRef, outCtx)
      [] OTHER -> TRUE

RECURSIVE StepsRun(_, _)
StepsRun(steps, h) ==
    IF steps = <<>> THEN <<>>
    ELSE (IF StepRuns(Head(steps), h) THEN <<Head(steps)>> ELSE <<>>)
         \o StepsRun(Tail(steps), h)

\* The state of the contexts after lines 331-336.
ClosedBy(ref, st) == IF CloseAttempt(ref, st) THEN [st EXCEPT ![ref] = "closed"] ELSE st

\* Lines 338-339: every source of the set is stopped, the set is cleared.
LeaveSources(srcs, set) == srcs
StopSources(srcs, set) ==
    [i \in DOMAIN srcs |->
        IF i \in set THEN [srcs[i] EXCEPT !.st = "stopped"] ELSE srcs[i]]

\* The cursor after stopConversation: the source leaves nextStartTimeRef alone.
CursorAfterStop(cursor) == cursor

\* The transcript after stopConversation: no line of it calls setConversationTranscript.
ClearedTranscript(transcript) == <<>>
TranscriptAfterStop(transcript) == transcript

\* The try/catch of lines 314-319: whether stopConversation goes on to line 321
\* when the awaited promise has rejected or session.close() has thrown.
StopsAtFailure(failed) == ~failed
TeardownContinues(failed) == TRUE

\* Lines 321-342, which follow the try/catch.  closeThrows: session.close() throws.
ReleaseSteps(h, closeThrows) ==
    /\ ws' = IF promise[h] = "resolved" /\ ~closeThrows /\ ws[h] = "open"
             THEN [ws EXCEPT ![h] = "closing"] ELSE ws
    /\ track' = IF mediaStreamRef # Null
                THEN [track EXCEPT ![mediaStreamRef] = "stopped"] ELSE track
    /\ procNode' = IF scriptProcessorRef # Null
                   THEN [procNode EXCEPT ![scriptProcessorRef] = "detached"] ELSE procNode
    /\ inCtx' = ClosedBy(inputAudioContextRef, inCtx)
    /\ outCtx' = ClosedBy(outputAudioContextRef, outCtx)
    /\ closeErr' = \/ closeErr
                   \/ CloseAttempt(inputAudioContextRef, inCtx)
                        /\ inCtx[inputAudioContextRef] = "closed"
                   \/ CloseAttempt(outputAudioContextRef, outCtx)
                        /\ outCtx[outputAudioContextRef] = "closed"
    /\ sources' = StopSources(sources, audioSourcesRef)
    /\ audioSourcesRef' = {}
    /\ nextStartTimeRef' = CursorAfterStop(nextStartTimeRef)
    /\ isConversationActive' = FALSE
    /\ isConnecting' = FALSE
    /\ releaseRuns' = [releaseRuns EXCEPT ![h] = @ + 1]
    /\ relLog' = StepsRun(TeardownOrder, h)

\* stopConversation() resumes after `await sessionPromise` (settled), and runs to
\* its end.
StopResume(h, closeThrows) ==
    /\ stopAwait[h] > 0
    /\ promise[h] \in {"resolved", "rejected"}
    /\ stopAwait' = [stopAwait EXCEPT ![h] = @ - 1]
    /\ IF TeardownContinues(promise[h] = "rejected" \/ closeThrows)
       THEN ReleaseSteps(h, closeThrows)
       ELSE UNCHANGED <<flagVars, audioSourcesRef, nextStartTimeRef, sources, track,
                        inCtx, outCtx, ws, procNode, relVars>>
    /\ conversationTranscript' = TranscriptAfterStop(conversationTranscript)
    /\ UNCHANGED <<uiVars, refVars, currentInputTranscriptionRef,
                   currentOutputTranscriptionRef, decodeQ, promise, sessionPromiseRef,
                   stopDuringMic, msgVars, nStarted, startPc, clock,
                   captureVars, codecVars>>

\* ------------------------------------------------------------- startConversation
\* startConversation() up to `await getUserMedia`.
StartConversation ==
    /\ nStarted' = nStarted + 1
    /\ isConnecting' = TRUE
    /\ conversationTranscript' = <<>>
    /\ startPc' = [startPc EXCEPT ![nStarted + 1] = "awaitMic"]

\* getUserMedia resolves: lines 350-355, the session-open is started and not awaited.
MicResolve(k) ==
    /\ startPc[k] = "awaitMic"
    /\ startPc' = [startPc EXCEPT ![k] = "done"]
    /\ track' = [track EXCEPT ![k] = "live"]
    /\ mediaStreamRef' = k
    /\ inCtx' = [inCtx EXCEPT ![k] = "running"]
    /\ outCtx' = [outCtx EXCEPT ![k] = "running"]
    /\ inputAudioContextRef' = k
    /\ outputAudioContextRef' = k
    /\ sessionPromiseRef' = k
    /\ promise' = [promise EXCEPT ![k] = "pending"]
    /\ ws' = [ws EXCEPT ![k] = "connecting"]
    /\ stopDuringMic' = stopDuringMic \ {k}
    /\ UNCHANGED <<uiVars, flagVars, scriptProcessorRef, textVars, playVars, procNode,
                   stopAwait, relVars, msgVars, nStarted, clock,
                   captureVars, codecVars>>

\* getUserMedia rejects: the catch block, lines 406-410.
MicReject(k) ==
    /\ startPc[k] = "awaitMic"
    /\ startPc' = [startPc EXCEPT ![k] = "failed"]
    /\ isConnecting' = FALSE
    /\ stopDuringMic' = stopDuringMic \ {k}
    /\ UNCHANGED <<uiVars, isConversationActive, refVars, textVars, playVars, objVars,
                   sessionPromiseRef, stopAwait, relVars, msgVars, nStarted, clock,
                   captureVars, codecVars>>

\* ------------------------------------------------------------- session callbacks
\* Line 365: .then(...) adds the callback of window w after those already
\* waiting on the promise.
RegisterFirst(q, w) == <<w>> \o q
Register(q, w) == Append(q, w)

\* The calls of session.sendRealtimeInput the callbacks q of promise h make.
Sends(h, q) == [i \in DOMAIN q |-> [session |-> h, window |-> q[i]]]

\* Promise h has resolved: the callbacks waiting on it run, oldest first.
ThenRun(h) ==
    /\ sent' = sent \o Sends(h, thenQ[h])
    /\ thenQ' = [thenQ EXCEPT ![h] = <<>>]

\* The socket of call k opens: onopen runs, and the session promise resolves
\* in the same turn of the event loop.  nodeThrows: createMediaStreamSource
\* throws, which it may on a context that is already closed.
OnOpen(k, nodeThrows) ==
    /\ ws[k] = "connecting"
    /\ ws' = [ws EXCEPT ![k] = "open"]
    /\ promise' = [promise EXCEPT ![k] = "resolved"]
    /\ ThenRun(k)
    /\ isConnecting' = FALSE
    /\ isConversationActive' = TRUE
    /\ IF inputAudioContextRef = Null
          \/ (inCtx[inputAudioContextRef] = "closed" /\ nodeThrows)
       THEN UNCHANGED <<scriptProcessorRef, procNode>>
       ELSE /\ scriptProcessorRef' = k
            /\ procNode' = [procNode EXCEPT ![k] = "attached"]
    /\ UNCHANGED <<uiVars, inputAudioContextRef, outputAudioContextRef, mediaStreamRef,
                   textVars, playVars, track, inCtx, outCtx, stopVars, relVars,
                   msgVars, nStarted, startPc, clock, nWindows, codecVars>>

\* The session promise of call k rejects: the open failed.  startConversation
\* attached no handler to it (line 355 does not await).
SessionReject(k) ==
    /\ promise[k] = "pending"
    /\ ws[k] \in {"connecting", "closed"}
    /\ promise' = [promise EXCEPT ![k] = "rejected"]
    /\ ws' = [ws EXCEPT ![k] = "closed"]
    /\ UNCHANGED <<uiVars, flagVars, refVars, textVars, playVars, track, inCtx, outCtx,
                   procNode, stopVars, relVars, msgVars, nStarted, startPc, clock,
                   captureVars, codecVars>>

\* onerror of call k: the socket has failed; alert, then stopConversation().
OnError(k) ==
    /\ ws[k] \in {"connecting", "open"}
    /\ ws' = [ws EXCEPT ![k] = "failed"]
    /\ StopConversation
    /\ UNCHANGED <<uiVars, flagVars, refVars, textVars, playVars, track, inCtx, outCtx,
                   promise, procNode, relVars, msgVars, nStarted, startPc, clock,
                   captureVars, codecVars>>

\* onclose of call k: stopConversation().
OnClose(k) ==
    /\ ws[k] \in {"connecting", "open", "failed", "closing"}
    /\ ws' = [ws EXCEPT ![k] = "closed"]
    /\ StopConversation
    /\ UNCHANGED <<uiVars, flagVars, refVars, textVars, playVars, track, inCtx, outCtx,
                   promise, procNode, relVars, msgVars, nStarted, startPc, clock,
                   captureVars, codecVars>>

\* ------------------------------------------------------------- UI handlers
\* The Talk button (Controls.tsx:97) has no disabled state: it starts a
\* conversation whatever the current one is doing.
HandleOpenConversationModal ==
    /\ mounted
    /\ isConversationModalOpen' = TRUE
    /\ StartConversation
    /\ UNCHANGED <<mounted, isConversationActive, refVars, currentInputTranscriptionRef,
                   currentOutputTranscriptionRef, playVars, objVars, stopVars, relVars,
                   msgVars, clock,
                   captureVars, codecVars>>

\* The modal's start/stop button, disabled while isConnecting (line 95).
HandleToggleConversation ==
    /\ mounted
    /\ isConversationModalOpen
    /\ ~isConnecting
    /\ IF isConversationActive \/ isConnecting
       THEN /\ StopConversation
            /\ UNCHANGED <<flagVars, conversationTranscript, nStarted, startPc>>
       ELSE /\ StartConversation
            /\ UNCHANGED <<isConversationActive, stopVars>>
    /\ UNCHANGED <<uiVars, refVars, currentInputTranscriptionRef,
                   currentOutputTranscriptionRef, playVars, objVars, relVars, msgVars, clock,
                   captureVars, codecVars>>

\* The modal's Close button, disabled while active or connecting (line 102).
HandleCloseConversationModal ==
    /\ mounted
    /\ isConversationModalOpen
    /\ ~(isConversationActive \/ isConnecting)
    /\ IF isConversationActive \/ isConnecting
       THEN StopConversation
       ELSE UNCHANGED stopVars
    /\ isConversationModalOpen' = FALSE
    /\ UNCHANGED <<mounted, flagVars, refVars, textVars, playVars, objVars, relVars,
                   msgVars, nStarted, startPc, clock,
                   captureVars, codecVars>>

\* The component unmounts: the effect cleanup of lines 414-419 calls stopConversation().
Unmount ==
    /\ mounted
    /\ mounted' = FALSE
    /\ StopConversation
    /\ UNCHANGED <<isConversationModalOpen, flagVars, refVars, textVars, playVars, objVars,
                   relVars, msgVars, nStarted, startPc, clock,
                   captureVars, codecVars>>

\* ------------------------------------------------------------- strings
\* A string is a sequence of characters; " " is the whitespace String.trim removes.
RECURSIVE TrimStart(_)
TrimStart(s) ==
    IF s # <<>> /\ Head(s) = " " THEN TrimStart(Tail(s)) ELSE s

RECURSIVE TrimEnd(_)
TrimEnd(s) ==
    IF s # <<>> /\ s[Len(s)] = " " THEN TrimEnd(SubSeq(s, 1, Len(s) - 1)) ELSE s

Trim(s) == TrimEnd(TrimStart(s))

\* ------------------------------------------------------------- onmessage
\* Lines 376-381: the entries a turn-complete appends to the transcript.
FlushModelFirst(userInput, modelOutput) ==
    (IF modelOutput # <<>> THEN <<[speaker |-> "model", text |-> modelOutput]>> ELSE <<>>)
    \o (IF userInput # <<>> THEN <<[speaker |-> "user", text |-> userInput]>> ELSE <<>>)
FlushEntries(userInput, modelOutput) ==
    (IF userInput # <<>> THEN <<[speaker |-> "user", text |-> userInput]>> ELSE <<>>)
    \o (IF modelOutput # <<>> THEN <<[speaker |-> "model", text |-> modelOutput]>> ELSE <<>>)

Max(a, b) == IF a >= b THEN a ELSE b

\* Int16 samples, one channel: decodeAudioData, Controls.tsx:289-291.
BytesPerSample == 2
NumChannels == 1

\* new Int16Array(data.buffer) throws on a byte length that is not a multiple of 2.
NeverFails(bytes) == FALSE
DecodeFails(bytes) == bytes % BytesPerSample # 0

\* audioBuffer.duration in sample periods of the output rate.
Duration(bytes) == (bytes \div BytesPerSample) \div NumChannels

\* Line 388: the cursor is raised to the output clock before the decode.
RaiseCursor(cursor, now) == Max(cursor, now)

\* Line 395: the cursor moves past the chunk.
CursorNotAdvanced(cursor, dur) == cursor
AdvanceCursor(cursor, dur) == cursor + dur

\* onmessage of call k up to `await decodeAudioData` (or to its end without audio).
OnMessage(k, m) ==
    /\ ws[k] \in {"open", "closing"}
    /\ nMsgs' = nMsgs + 1
    /\ lastMsg' = m
    /\ LET accIn == currentInputTranscriptionRef \o m.inT
           accOut == currentOutputTranscriptionRef \o m.outT
       IN IF m.turnComplete
          THEN /\ conversationTranscript' =
                      conversationTranscript \o FlushEntries(Trim(accIn), Trim(accOut))
               /\ currentInputTranscriptionRef' = <<>>
               /\ currentOutputTranscriptionRef' = <<>>
          ELSE /\ currentInputTranscriptionRef' = accIn
               /\ currentOutputTranscriptionRef' = accOut
               /\ UNCHANGED conversationTranscript
    /\ IF m.audio > 0 /\ outputAudioContextRef # Null
       THEN /\ nextStartTimeRef' =
                   RaiseCursor(nextStartTimeRef, clock[outputAudioContextRef])
            /\ decodeQ' = Append(decodeQ, [arr |-> nMsgs + 1,
                                           ctx |-> outputAudioContextRef,
                                           bytes |-> m.audio])
       ELSE UNCHANGED <<nextStartTimeRef, decodeQ>>
    /\ UNCHANGED <<uiVars, flagVars, refVars, audioSourcesRef, sources, objVars, stopVars,
                   relVars, nStarted, startPc, clock,
                   captureVars, codecVars>>

\* The oldest suspended onmessage resumes after `await decodeAudioData`: lines 390-396,
\* or the rejection of a malformed payload, which ends the handler.
DecodeResume ==
    /\ decodeQ # <<>>
    /\ decodeQ' = Tail(decodeQ)
    /\ LET d == Head(decodeQ)
           id == Len(sources) + 1
       IN IF DecodeFails(d.bytes)
          THEN UNCHANGED <<audioSourcesRef, nextStartTimeRef, sources>>
          ELSE /\ sources' = Append(sources, [arr |-> d.arr, ctx |-> d.ctx,
                                              start |-> nextStartTimeRef,
                                              dur |-> Duration(d.bytes),
                                              st |-> "scheduled"])
               /\ nextStartTimeRef' = AdvanceCursor(nextStartTimeRef, Duration(d.bytes))
               /\ audioSourcesRef' = audioSourcesRef \cup {id}
    /\ UNCHANGED <<uiVars, flagVars, refVars, textVars, objVars, stopVars, relVars,
                   msgVars, nStarted, startPc, clock,
                   captureVars, codecVars>>

RECURSIVE SumTo(_, _)
SumTo(f, n) == IF n = 0 THEN 0 ELSE f[n] + SumTo(f, n - 1)

\* The output clock of a running context advances.
Tick(k) ==
    /\ outCtx[k] = "running"
    /\ clock' = [clock EXCEPT ![k] = @ + 1]
    /\ UNCHANGED <<uiVars, flagVars, refVars, textVars, playVars, objVars, stopVars,
                   relVars, msgVars, nStarted, startPc, captureVars, codecVars>>

\* The "ended" listener of line 393: source i has played to its end.
SourceEnded(i) ==
    /\ i \in DOMAIN sources
    /\ sources[i].st = "scheduled"
    /\ outCtx[sources[i].ctx] = "running"
    /\ clock[sources[i].ctx] >= sources[i].start + sources[i].dur
    /\ sources' = [sources EXCEPT ![i].st = "ended"]
    /\ audioSourcesRef' = audioSourcesRef \ {i}
    /\ UNCHANGED <<uiVars, flagVars, refVars, textVars, nextStartTimeRef, decodeQ, objVars,
                   stopVars, relVars, msgVars, nStarted, startPc, clock,
                   captureVars, codecVars>>

\* ------------------------------------------------------------- capture
\* onaudioprocess of the capture node of call k, lines 362-366: the window is
\* encoded and its send is chained on the promise sessionPromiseRef holds now.
\* With the ref null the window is dropped; on a resolved promise the callback
\* runs before the event loop takes its next turn.
AudioProcess(k) ==
    /\ procNode[k] = "attached"
    /\ nWindows' = nWindows + 1
    /\ IF sessionPromiseRef = Null
       THEN UNCHANGED <<thenQ, sent>>
       ELSE LET h == sessionPromiseRef
                q == Register(thenQ[h], nWindows + 1)
            IN IF promise[h] = "resolved"
               THEN /\ sent' = sent \o Sends(h, q)
                    /\ thenQ' = [thenQ EXCEPT ![h] = <<>>]
               ELSE /\ thenQ' = [thenQ EXCEPT ![h] = q]
                    /\ UNCHANGED sent
    /\ UNCHANGED <<uiVars, flagVars, refVars, textVars, playVars, objVars, stopVars,
                   relVars, msgVars, nStarted, startPc, clock, codecVars>>

\* ------------------------------------------------------------- codec
\* A sample is an integer number of units of 1/SampleDen, so that SampleDen is
\* the sample 1.0 and two units are one quantisation step 1/32768.  A string is
\* the sequence of its character codes; a base64 string is the sequence of its
\* 6-bit digits, Pad for '='.
Scale == 32768
SampleDen == 2 * Scale
Pad == 64

convVars == <<uiVars, flagVars, refVars, textVars, playVars, objVars, stopVars, relVars,
              msgVars, nStarted, startPc, clock, captureVars>>

\* Number conversion truncates toward zero.
TruncDiv(a, b) == IF a >= 0 THEN a \div b ELSE -((-a) \div b)

\* Storing an integer in an Int16Array keeps its low 16 bits, read as signed.
WrapInt16(v) == ((v + 2^15) % 2^16) - 2^15

\* createAudioBlob, line 306: int16[i] = data[i] * 32768.
SampleToInt16(x) == WrapInt16(TruncDiv(x, SampleDen \div Scale))

\* new Uint8Array(int16.buffer): two bytes a sample, low byte first.
RECURSIVE Int16ArrayBytes(_)
Int16ArrayBytes(a) ==
    IF a = <<>> THEN <<>>
    ELSE LET u == Head(a) % 2^16
         IN <<u % 256, u \div 256>> \o Int16ArrayBytes(Tail(a))

\* new Int16Array(data.buffer), for a byte length that is a multiple of 2.
RECURSIVE BytesInt16Array(_)
BytesInt16Array(b) ==
    IF Len(b) < 2 THEN <<>>
    ELSE <<WrapInt16(b[1] + 256 * b[2])>> \o BytesInt16Array(SubSeq(b, 3, Len(b)))

\* btoa: three bytes make four digits, the last group is padded.
RECURSIVE Btoa(_)
Btoa(b) ==
    IF b = <<>> THEN <<>>
    ELSE IF Len(b) = 1
    THEN <<b[1] \div 4, (b[1] % 4) * 16, Pad, Pad>>
    ELSE IF Len(b) = 2
    THEN <<b[1] \div 4, (b[1] % 4) * 16 + b[2] \div 16, (b[2] % 16) * 4, Pad>>
    ELSE <<b[1] \div 4, (b[1] % 4) * 16 + b[2] \div 16,
           (b[2] % 16) * 4 + b[3] \div 64, b[3] % 64>>
         \o Btoa(SubSeq(b, 4, Len(b)))

\* atob: four digits make three bytes, fewer where the group is padded.
RECURSIVE AtobWholeGroups(_)
AtobWholeGroups(t) ==
    IF Len(t) < 4 THEN <<>>
    ELSE LET d == [i \in 1..4 |-> IF t[i] = Pad THEN 0 ELSE t[i]]
         IN <<d[1] * 4 + d[2] \div 16, (d[2] % 16) * 16 + d[3] \div 4,
              (d[3] % 4) * 64 + d[4]>>
            \o AtobWholeGroups(SubSeq(t, 5, Len(t)))
RECURSIVE Atob(_)
Atob(t) ==
    IF Len(t) < 4 THEN <<>>
    ELSE (IF t[3] = Pad
          THEN <<t[1] * 4 + t[2] \div 16>>
          ELSE IF t[4] = Pad
          THEN <<t[1] * 4 + t[2] \div 16, (t[2] % 16) * 16 + t[3] \div 4>>
          ELSE <<t[1] * 4 + t[2] \div 16, (t[2] % 16) * 16 + t[3] \div 4,
                 (t[3] % 4) * 64 + t[4]>>)
         \o Atob(SubSeq(t, 5, Len(t)))

\* encode: one character for each byte, then btoa.
Encode(bytes) == Btoa([i \in DOMAIN bytes |-> bytes[i] % 256])

\* decode: atob, then one byte for each character.
Decode(text) == LET binaryString == Atob(text)
                IN [i \in DOMAIN binaryString |-> binaryString[i] % 256]

\* The bytes createAudioBlob encodes.
PcmBytes(data) == Int16ArrayBytes([i \in DOMAIN data |-> SampleToInt16(data[i])])

\* decodeAudioData, line 296: channelData[i] = dataInt16[i] / 32768.0.
ChannelData(data) ==
    LET dataInt16 == BytesInt16Array(data)
    IN [i \in 1..(Len(dataInt16) \div NumChannels) |->
            dataInt16[(i - 1) * NumChannels + 1] * (SampleDen \div Scale)]

\* createAudioBlob(floatIn).
CreateAudioBlob ==
    /\ codecPc = "samples"
    /\ bytesIn' = PcmBytes(floatIn)
    /\ base64' = Encode(PcmBytes(floatIn))
    /\ codecPc' = "blob"
    /\ UNCHANGED <<floatIn, bytesOut, floatOut, convVars>>

\* encode(bytesIn).
EncodeCall ==
    /\ codecPc = "bytes"
    /\ base64' = Encode(bytesIn)
    /\ codecPc' = "encoded"
    /\ UNCHANGED <<floatIn, bytesIn, bytesOut, floatOut, convVars>>

\* decode(base64), of a blob or of encoded bytes.
DecodeCall ==
    /\ codecPc \in {"blob", "encoded"}
    /\ bytesOut' = Decode(base64)
    /\ codecPc' = IF codecPc = "blob" THEN "pcm" ELSE "decoded"
    /\ UNCHANGED <<floatIn, bytesIn, base64, floatOut, convVars>>

\* decodeAudioData(bytesOut, ctx, 24000, 1).
DecodeAudioDataCall ==
    /\ codecPc \in {"pcm", "decoded"}
    /\ IF DecodeFails(Len(bytesOut))
       THEN codecPc' = "failed" /\ UNCHANGED floatOut
       ELSE codecPc' = "done" /\ floatOut' = ChannelData(bytesOut)
    /\ UNCHANGED <<floatIn, bytesIn, base64, bytesOut, convVars>>

\* ------------------------------------------------------------- specifications
UserFrags == {<<>>, <<"a">>, <<" ">>}
ModelFrags == {<<>>, <<"b">>, <<" ">>}
AudioMsgs == {[NoMsg EXCEPT !.audio = b] : b \in {1, 2, 4}}
TextMsgs == {[inT |-> i, outT |-> o, turnComplete |-> t, audio |-> 0] :
                i \in UserFrags, o \in ModelFrags, t \in BOOLEAN}

\* The handlers and the events of the platform, with at most n calls of
\* startConversation.
Lifecycle(n) ==
    \/ nStarted < n /\ HandleOpenConversationModal
    \/ (isConversationActive \/ nStarted < n) /\ HandleToggleConversation
    \/ HandleCloseConversationModal
    \/ Unmount
    \/ \E k \in Conv : MicResolve(k)
    \/ \E k \in Conv : MicReject(k)
    \/ \E k \in Conv, nodeThrows \in BOOLEAN : OnOpen(k, nodeThrows)
    \/ \E k \in Conv : SessionReject(k)
    \/ \E k \in Conv : OnError(k)
    \/ \E k \in Conv : OnClose(k)
    \/ \E h \in Conv, closeThrows \in BOOLEAN : StopResume(h, closeThrows)

\* The conversations that run without a failure of the platform: started and
\* stopped by the user, ended by an error event.
Conversation(n) ==
    \/ nStarted < n /\ HandleOpenConversationModal
    \/ (isConversationActive \/ nStarted < n) /\ HandleToggleConversation
    \/ \E k \in Conv : MicResolve(k)
    \/ \E k \in Conv : OnOpen(k, FALSE)
    \/ \E k \in Conv : OnError(k)
    \/ \E h \in Conv : StopResume(h, FALSE)

\* The lifecycle alone.
Next == Lifecycle(MaxConv)

Spec == Init /\ [][Next]_vars

\* The lifecycle with inbound audio and the output clock.
NextPlayback ==
    \/ Conversation(PbConv)
    \/ nMsgs < PbMsgs /\ \E k \in Conv, m \in AudioMsgs : OnMessage(k, m)
    \/ DecodeResume
    \/ \E k \in Conv : SumTo(clock, MaxConv) < MaxClock /\ Tick(k)
    \/ \E i \in 1..PbMsgs : SourceEnded(i)

SpecPlayback == Init /\ [][NextPlayback]_vars

\* The lifecycle with inbound transcript fragments and turn-complete markers.
NextTranscript ==
    \/ Conversation(TrConv)
    \/ \E k \in Conv : OnClose(k)
    \/ nMsgs < TrMsgs /\ \E k \in Conv, m \in TextMsgs : OnMessage(k, m)

SpecTranscript == Init /\ [][NextTranscript]_vars

\* Conversations one after another, with fragments and turn-complete markers
\* arriving in each.
ReConv == 2         \* calls of startConversation in one run of SpecRestart
ReMsgs == 2         \* messages delivered in one run of SpecRestart

\* A user fragment, a model fragment, or the turn-complete marker alone.
RestartMsgs == {[NoMsg EXCEPT !.inT = <<"a">>], [NoMsg EXCEPT !.outT = <<"b">>],
                [NoMsg EXCEPT !.turnComplete = TRUE]}

NextRestart ==
    \/ Conversation(ReConv)
    \/ nMsgs < ReMsgs /\ \E k \in Conv, m \in RestartMsgs : OnMessage(k, m)

SpecRestart == Init /\ [][NextRestart]_vars

\* The lifecycle with the capture node producing windows.
CapConv == 2        \* calls of startConversation in one run of SpecCapture
CapWindows == 2     \* windows produced in one run of SpecCapture

NextCapture ==
    \/ Conversation(CapConv)
    \/ nWindows < CapWindows /\ \E k \in Conv : AudioProcess(k)

SpecCapture == Init /\ [][NextCapture]_vars

\* The codec: a sample sequence through createAudioBlob, decode and
\* decodeAudioData, or a byte sequence through encode, decode and
\* decodeAudioData.
MaxSamples == 2
MaxBytes == 4
SampleGrid == {-SampleDen, 1 - SampleDen, -Scale, -1, 0, 1, Scale + 1, SampleDen - 1, SampleDen}
ByteGrid == {0, 77, 170, 255}
SeqsUpTo(S, n) == UNION {[1..m -> S] : m \in 0..n}

InitCodec ==
    /\ InitConversation
    /\ \/ codecPc = "samples" /\ floatIn \in SeqsUpTo(SampleGrid, MaxSamples) /\ bytesIn = <<>>
       \/ codecPc = "bytes" /\ bytesIn \in SeqsUpTo(ByteGrid, MaxBytes) /\ floatIn = <<>>
    /\ base64 = <<>>
    /\ bytesOut = <<>>
    /\ floatOut = <<>>

NextCodec ==
    \/ CreateAudioBlob
    \/ EncodeCall
    \/ DecodeCall
    \/ DecodeAudioDataCall

SpecCodec == InitCodec /\ [][NextCodec]_vars

\* ------------------------------------------------------------- stop()
\* C1: stop() is idempotent.  However many times stopConversation is called
\* (before any start, twice in a row, again while the first call is suspended
\* at `await sessionPromise`), the release steps of lines 314-342 run at most
\* once for one session handle, and no call closes an audio context that is
\* already closed, the one step of stop() that would fail.
StopIdempotent ==
    /\ \A h \in Conv : releaseRuns[h] <= 1
    /\ ~closeErr

\* The component was unmounted and the socket of h failed, each of which called
\* stop(), and the release steps of h have run once.
StopIdempotentWitness ==
    \E h \in Conv :
        /\ ~mounted
        /\ ws[h] = "failed"
        /\ stopAwait[h] = 0
        /\ releaseRuns[h] = 1

\* C2: mid-connect cancellation.  When stop() was called while the session-open
\* of call k was pending (a stop() call is suspended on handle k and the socket
\* is still connecting), the opened notification that arrives afterwards
\* attaches no capture callback.
MidConnectStopAttachesNothing ==
    [][\A k \in Conv :
          (stopAwait[k] > 0 /\ ws[k] = "connecting" /\ ws'[k] = "open")
              => procNode'[k] = "none"]_vars

\* C3: at most one session at a time.  No step replaces a microphone stream
\* whose track is live, an audio context that is running, or a session handle
\* that stop() has not taken.
NoOverwriteWhileUnreleased ==
    [][/\ (mediaStreamRef # Null /\ mediaStreamRef' # mediaStreamRef)
              => track[mediaStreamRef] # "live"
       /\ (inputAudioContextRef # Null /\ inputAudioContextRef' # inputAudioContextRef)
              => inCtx[inputAudioContextRef] # "running"
       /\ (outputAudioContextRef # Null /\ outputAudioContextRef' # outputAudioContextRef)
              => outCtx[outputAudioContextRef] # "running"
       /\ (sessionPromiseRef # Null /\ sessionPromiseRef' # sessionPromiseRef)
              => sessionPromiseRef' = Null]_vars

\* C4: an error triggers teardown.  The error event of an open session calls
\* stop(), which takes the session handle; and when the release steps have run
\* the state is Idle, the tracks of the stream are stopped, the capture node is
\* detached, both audio contexts are closed, no source is left playing and the
\* set of active sources is empty.
ErrorTriggersTeardown ==
    [][/\ \A k \in Conv :
              (ws[k] = "open" /\ ws'[k] = "failed") =>
                  /\ sessionPromiseRef' = Null
                  /\ sessionPromiseRef # Null => stopAwait'[sessionPromiseRef] > 0
       /\ \A h \in Conv :
              releaseRuns'[h] > releaseRuns[h] =>
                  /\ ~isConnecting' /\ ~isConversationActive'
                  /\ mediaStreamRef' # Null => track'[mediaStreamRef'] = "stopped"
                  /\ scriptProcessorRef' # Null
                         => procNode'[scriptProcessorRef'] = "detached"
                  /\ inputAudioContextRef' # Null
                         => inCtx'[inputAudioContextRef'] = "closed"
                  /\ outputAudioContextRef' # Null
                         => outCtx'[outputAudioContextRef'] = "closed"
                  /\ \A i \in DOMAIN sources' : sources'[i].st # "scheduled"
                  /\ audioSourcesRef' = {}]_vars

\* The socket of h failed after it had opened, the release steps have run, and
\* a source that was playing has been stopped.
ErrorTriggersTeardownWitness ==
    \E h \in Conv :
        /\ ws[h] = "failed"
        /\ procNode[h] = "detached"
        /\ releaseRuns[h] = 1
        /\ ~isConnecting /\ ~isConversationActive
        /\ track[h] = "stopped" /\ inCtx[h] = "closed" /\ outCtx[h] = "closed"
        /\ audioSourcesRef = {}
        /\ \E i \in DOMAIN sources : sources[i].st = "stopped"

\* C5: a rejected session-open invokes stop().  Once the session promise of
\* call k has rejected, stop() has taken handle k (so that its release steps
\* stop the microphone and set the state to Idle).
SessionRejectInvokesStop ==
    \A k \in Conv : promise[k] = "rejected" => sessionPromiseRef # k

\* C6: stop() during the microphone acquisition.  A call of start that a stop()
\* call passed while it was suspended at getUserMedia re-checks ownership when
\* it resumes: it leaves no live microphone track, no running audio context and
\* no session behind.
StartRechecksAfterStop ==
    [][\A k \in Conv :
          (k \in stopDuringMic /\ startPc[k] = "awaitMic" /\ startPc'[k] = "done") =>
              /\ track'[k] # "live"
              /\ inCtx'[k] # "running"
              /\ outCtx'[k] # "running"
              /\ promise'[k] = "none"
              /\ ~isConnecting' /\ ~isConversationActive']_vars

\* C10: the order of teardown.  The steps a run of stop() performs come in the
\* order: close the session, stop the tracks, detach the capture node, close the
\* audio contexts, stop and clear the sources, set the state to Idle.
TeardownInOrder ==
    LET Rank(step) ==
            CASE step = "closeSession" -> 1
              [] step = "stopTracks" -> 2
              [] step = "detachCapture" -> 3
              [] step = "closeContexts" -> 4
              [] step = "stopSources" -> 5
              [] step = "setIdle" -> 6
    IN \A i, j \in DOMAIN relLog : i < j => Rank(relLog[i]) < Rank(relLog[j])

\* A stop() from Active has run all six steps.
TeardownInOrderWitness ==
    /\ Len(relLog) = 6
    /\ \E h \in Conv : releaseRuns[h] = 1 /\ ws[h] = "closing"

\* ------------------------------------------------------------- playback
\* C7: playback monotonicity.  Of two chunks, the one that arrived first starts
\* no later than the other and ends no later than the other starts, whatever
\* the output clock showed when they arrived and however the handlers of the
\* messages overlapped at the decode.
PlaybackMonotone ==
    \A i, j \in DOMAIN sources :
        sources[i].arr < sources[j].arr =>
            /\ sources[i].start <= sources[j].start
            /\ sources[i].start + sources[i].dur <= sources[j].start

\* Two chunks of different lengths are scheduled, the first of them after the
\* output clock had advanced.
PlaybackMonotoneWitness ==
    /\ Len(sources) = 2
    /\ sources[1].start = 1
    /\ sources[1].dur # sources[2].dur
    /\ sources[2].start = sources[1].start + sources[1].dur

\* C8: stopAll.  The playback part of teardown stops every source of the set,
\* leaves the set empty and resets the cursor to 0 or to the current time of the
\* output clock.
StopAllResetsCursor ==
    [][\A h \in Conv :
          releaseRuns'[h] > releaseRuns[h] =>
              /\ \A i \in audioSourcesRef : sources'[i].st = "stopped"
              /\ audioSourcesRef' = {}
              /\ \/ nextStartTimeRef' = 0
                 \/ /\ outputAudioContextRef' # Null
                    /\ nextStartTimeRef' = clock'[outputAudioContextRef']]_vars

\* ------------------------------------------------------------- transcript
\* C9: transcript flush.  A message with the turn-complete marker appends, for
\* the user and then for the model, one entry holding the trimmed accumulator
\* (the fragments received since the last flush, this message's included, in
\* arrival order) unless that accumulator is empty or all whitespace, and
\* leaves both accumulators empty; a message without the marker only appends
\* its fragments to the accumulators.
TranscriptFlush ==
    [][nMsgs' = nMsgs + 1 =>
          LET accIn == currentInputTranscriptionRef \o lastMsg'.inT
              accOut == currentOutputTranscriptionRef \o lastMsg'.outT
              Blank(s) == \A i \in DOMAIN s : s[i] = " "
              user == [speaker |-> "user", text |-> Trim(accIn)]
              model == [speaker |-> "model", text |-> Trim(accOut)]
          IN IF lastMsg'.turnComplete
             THEN /\ conversationTranscript' = conversationTranscript \o
                        (CASE ~Blank(accIn) /\ ~Blank(accOut) -> <<user, model>>
                           [] ~Blank(accIn) /\ Blank(accOut) -> <<user>>
                           [] Blank(accIn) /\ ~Blank(accOut) -> <<model>>
                           [] OTHER -> <<>>)
                  /\ currentInputTranscriptionRef' = <<>>
                  /\ currentOutputTranscriptionRef' = <<>>
             ELSE /\ conversationTranscript' = conversationTranscript
                  /\ currentInputTranscriptionRef' = accIn
                  /\ currentOutputTranscriptionRef' = accOut]_vars

\* Two user fragments were joined into one entry and a model accumulator of
\* whitespace gave none.
TranscriptFlushWitness ==
    /\ conversationTranscript = <<[speaker |-> "user", text |-> <<"a", "a">>]>>
    /\ lastMsg.turnComplete
    /\ lastMsg.outT = <<" ">>
    /\ currentInputTranscriptionRef = <<>>
    /\ currentOutputTranscriptionRef = <<>>

\* ------------------------------------------------------------- failures
\* C11: teardown always completes.  When a suspended stop() resumes on a
\* rejected session promise, or its session.close() throws (the socket stays
\* open), it still stops the tracks, detaches the capture node, closes both
\* audio contexts, clears the sources and sets the state to Idle, and it does
\* not fail on the way.
TeardownAlwaysCompletes ==
    [][\A h \in Conv :
          (/\ stopAwait'[h] < stopAwait[h]
           /\ \/ promise[h] = "rejected"
              \/ promise[h] = "resolved" /\ ws[h] = "open" /\ ws'[h] = "open") =>
              /\ releaseRuns'[h] = releaseRuns[h] + 1
              /\ mediaStreamRef # Null => track'[mediaStreamRef] = "stopped"
              /\ scriptProcessorRef # Null => procNode'[scriptProcessorRef] = "detached"
              /\ inputAudioContextRef # Null => inCtx'[inputAudioContextRef] = "closed"
              /\ outputAudioContextRef # Null => outCtx'[outputAudioContextRef] = "closed"
              /\ audioSourcesRef' = {}
              /\ ~isConnecting' /\ ~isConversationActive'
              /\ ~closeErr']_vars

\* One session whose promise rejected and one whose close() threw have both
\* been torn down.
TeardownAlwaysCompletesWitness ==
    \E h1, h2 \in Conv :
        /\ promise[h1] = "rejected" /\ releaseRuns[h1] = 1
        /\ track[h1] = "stopped" /\ inCtx[h1] = "closed" /\ outCtx[h1] = "closed"
        /\ promise[h2] = "resolved" /\ ws[h2] = "open" /\ releaseRuns[h2] = 1
        /\ track[h2] = "stopped" /\ procNode[h2] = "detached"
        /\ inCtx[h2] = "closed" /\ outCtx[h2] = "closed"
        /\ ~isConnecting /\ ~isConversationActive

\* C12: the microphone acquisition fails.  When getUserMedia rejects for call
\* k, the state is Idle afterwards, call k has no track, no audio context, no
\* session promise and no socket, the session handle is what it was, and no
\* step of teardown runs.
MicFailureReturnsToIdle ==
    [][\A k \in Conv :
          (startPc[k] = "awaitMic" /\ startPc'[k] = "failed") =>
              /\ ~isConnecting' /\ ~isConversationActive'
              /\ track'[k] = "none" /\ inCtx'[k] = "none" /\ outCtx'[k] = "none"
              /\ promise'[k] = "none" /\ ws'[k] = "none"
              /\ UNCHANGED <<sessionPromiseRef, stopAwait, refVars, relVars>>]_vars

\* ------------------------------------------------------------- codec round trips
\* C13: codec round trip.  Decoding the PCM16 encoding of a sample sequence
\* gives a sequence of the same length in which every sample is within one
\* quantisation step, 1/32768, of the original, the samples -1 and 1 included.
CodecRoundTrip ==
    codecPc = "done" /\ bytesIn = PcmBytes(floatIn) =>
        /\ Len(floatOut) = Len(floatIn)
        /\ \A i \in DOMAIN floatIn :
               /\ floatOut[i] - floatIn[i] <= SampleDen \div Scale
               /\ floatIn[i] - floatOut[i] <= SampleDen \div Scale

\* C14: transport text round trip.  decode(encode(b)) is b: the same length
\* and the same byte at every index, for the empty sequence and for lengths
\* that are not a multiple of 3 too.
TransportRoundTrip ==
    codecPc \in {"decoded", "pcm"} => bytesOut = bytesIn

\* Four bytes, one more than a whole group, have gone through encode and decode.
TransportRoundTripWitness ==
    /\ codecPc = "decoded"
    /\ Len(bytesIn) = 4
    /\ bytesIn[4] = 255
    /\ base64[Len(base64)] = Pad
    /\ bytesOut = bytesIn

\* ------------------------------------------------------------- inbound audio
\* C15: a malformed payload.  When the handler of an audio payload whose byte
\* length is not a multiple of 2 * channelCount resumes, the decode has failed:
\* no source is created, the set of active sources and the cursor are as they
\* were, the session and its state are untouched, and the handlers of the
\* later messages are still waiting to run.
MalformedChunkDropped ==
    [][(/\ decodeQ # <<>>
        /\ Len(decodeQ') < Len(decodeQ)
        /\ Head(decodeQ).bytes % (2 * NumChannels) # 0) =>
            /\ sources' = sources
            /\ audioSourcesRef' = audioSourcesRef
            /\ nextStartTimeRef' = nextStartTimeRef
            /\ decodeQ' = Tail(decodeQ)
            /\ UNCHANGED <<flagVars, ws, promise, sessionPromiseRef, stopAwait>>]_vars

\* The first message carried a malformed payload and was dropped; the second
\* was scheduled, and the session is still Active.
MalformedChunkDroppedWitness ==
    /\ nMsgs = 2
    /\ decodeQ = <<>>
    /\ Len(sources) = 1
    /\ sources[1].arr = 2
    /\ isConversationActive
    /\ audioSourcesRef = {1}

\* ------------------------------------------------------------- transcript and stop
\* C16: stop() preserves the transcript.  No step of stopConversation, whether
\* it is called from the button, from an error event or from a closed event,
\* and whether it is the call or its resumption after the await, changes the
\* transcript: the entries finalized before are there, in the same order.
StopKeepsTranscript ==
    [][(\/ \E h \in Conv : stopAwait'[h] # stopAwait[h]
        \/ sessionPromiseRef # Null /\ sessionPromiseRef' = Null
        \/ \E k \in Conv : ws'[k] # ws[k] /\ ws'[k] \in {"failed", "closed"}) =>
            conversationTranscript' = conversationTranscript]_vars

\* A session with a transcript of two entries was ended by a closed event and
\* torn down; the state is Idle and the entries are there.
StopKeepsTranscriptWitness ==
    \E h \in Conv :
        /\ ws[h] = "closed"
        /\ procNode[h] = "detached"
        /\ releaseRuns[h] = 1
        /\ ~isConnecting /\ ~isConversationActive
        /\ Len(conversationTranscript) = 2

\* C17: the start time of a chunk.  When a chunk is scheduled, its start time
\* is the larger of the cursor and the output clock as they are at that moment,
\* so it is not earlier than the clock, and the cursor afterwards is that start
\* time plus the chunk's duration.
StartIsMaxOfCursorAndNow ==
    [][Len(sources') > Len(sources) =>
          LET src == sources'[Len(sources')]
          IN /\ src.start = Max(nextStartTimeRef, clock[src.ctx])
             /\ src.start >= clock[src.ctx]
             /\ nextStartTimeRef' = src.start + src.dur]_vars

\* C18: nothing is scheduled after stop().  A chunk whose message arrives after
\* stop() began, or whose handler resumes from the decode after the teardown,
\* is dropped, so the set of active sources is empty whenever the state is Idle.
NoSourceWhileIdle ==
    LifecycleState = "Idle" => audioSourcesRef = {}

\* ------------------------------------------------------------- capture order
\* C19: capture order.  The windows handed to a session's sendRealtimeInput
\* are handed over in the order the capture node produced them, those captured
\* while the session promise was still pending included.
CaptureOrder ==
    \A i, j \in DOMAIN sent :
        (i < j /\ sent[i].session = sent[j].session) => sent[i].window < sent[j].window

\* Two windows were captured while the promise of h was pending, and both
\* have been sent to h, the first one first.
CaptureOrderWitness ==
    \E h \in Conv :
        /\ sessionPromiseRef = h
        /\ nWindows = 2
        /\ sent = <<[session |-> h, window |-> 1], [session |-> h, window |-> 2]>>
        /\ procNode[h] = "attached"
        /\ \E k \in Conv : k # h /\ procNode[k] = "attached"

\* ------------------------------------------------------------- stale callbacks
\* C20: stale callbacks.  An error or closed notification of a session that has
\* been torn down, delivered when the session handle is that of a later
\* session, leaves that handle where it is and suspends no stop() on it.
StaleCallbackLeavesLaterSession ==
    [][\A k \in Conv :
          (/\ ws'[k] # ws[k]
           /\ ws'[k] \in {"failed", "closed"}
           /\ releaseRuns[k] > 0
           /\ sessionPromiseRef # Null
           /\ sessionPromiseRef # k) =>
              /\ sessionPromiseRef' = sessionPromiseRef
              /\ stopAwait' = stopAwait]_vars

\* ------------------------------------------------------------- capture and stop
\* C21: nothing is sent after stop().  From the moment stop() has taken the
\* handle of a session, no captured window is handed to that session's
\* sendRealtimeInput.
NoSendAfterStop ==
    [][\A i \in (Len(sent) + 1)..Len(sent') :
          /\ stopAwait[sent'[i].session] = 0
          /\ releaseRuns[sent'[i].session] = 0]_vars

\* ------------------------------------------------------------- transcript across conversations
\* C22: no leak between conversations.  When startConversation is called after
\* the previous conversation was stopped and its teardown has finished, both
\* pending accumulators are empty, so the first flush of the conversation holds
\* only fragments received during it.
StartFindsAccumulatorsEmpty ==
    [][(/\ nStarted' = nStarted + 1
        /\ sessionPromiseRef = Null
        /\ ~isConversationActive /\ ~isConnecting
        /\ \A h \in Conv : stopAwait[h] = 0) =>
          /\ currentInputTranscriptionRef' = <<>>
          /\ currentOutputTranscriptionRef' = <<>>]_vars

\* ------------------------------------------------------------- the two flags
\* C23: Connecting and Active exclude each other.  The connecting flag and the
\* active flag are never both true; the active flag becomes true only in the
\* opened notification of a socket, received while the connecting flag is
\* true; and an opened notification that arrives while a stop() call is
\* suspended on the session's handle leaves the active flag false.
FlagsExclusive ==
    [][/\ ~(isConnecting' /\ isConversationActive')
       /\ (~isConversationActive /\ isConversationActive') =>
              /\ isConnecting
              /\ \E k \in Conv : ws[k] = "connecting" /\ ws'[k] = "open"
       /\ \A k \in Conv :
              (stopAwait[k] > 0 /\ ws[k] = "connecting" /\ ws'[k] = "open")
                  => ~isConversationActive']_vars
====
